---- MODULE Spec2Model ----
(***************************************************************************)
(* A model of the translation gateway:                                     *)
(*   - the polyfilled WebAssembly.instantiate of the in-process bridge     *)
(*     (src/src/wasm_engine.rs, WasmEngine::new),                          *)
(*   - WasmEngine::new / load_model / translate and the adapter script     *)
(*     (ADAPTER_JS) they call,                                             *)
(*   - the out-of-process Translator (src/src/translation.rs),             *)
(*   - the startup sequence of main (src/src/main.rs) and the request      *)
(*     handler perform_translation (src/src/translation.rs),               *)
(*   - auth_middleware in front of the routes (src/src/main.rs).           *)
(* Each part has its own specification; the variables of the parts a       *)
(* specification does not run are parked at their initial values.          *)
(***************************************************************************)
EXTENDS Naturals, Integers, Sequences, FiniteSets, TLC

VARIABLES
    \* ---- WebAssembly.instantiate polyfill
    wasmIn,       \* the bytes argument: what the module they hold declares
    instPc,       \* position inside the instantiate closure
    linker,       \* the (module, name) pairs defined in the Linker so far
    linkIdx,      \* index of the next import the loop of l.153 visits
    exportsObj,   \* the keys set on the JS `exports` object so far
    instOut,      \* what the call produced
    \* ---- WasmEngine (in-process bridge)
    glue,         \* how the glue script given to WasmEngine::new behaves
    newPc,        \* position inside WasmEngine::new
    newResult,    \* what WasmEngine::new returned
    readyFired,   \* Module.onRuntimeInitialized has been called
    engService,   \* engine.service is set
    engModels,    \* engine.models: key -> model handle
    nextHandle,   \* identity of the next TranslationModel constructed
    ctxOwner,     \* the call holding the script context (0: nobody)
    engCall,      \* per caller: the WasmEngine call it is in
    engCalls,     \* number of calls made on the engine
    loadedPairs,  \* (from, to) pairs for which engine.loadModel returned true
    \* ---- Translator (out-of-process backend)
    numWorkers,   \* the num_workers argument of Translator::new
    trPc,         \* position inside Translator::new, then "ok" or "err"
    pollI,        \* the loop variable i of the health loop
    polls,        \* GET /health requests sent
    okPolls,      \* GET /health requests answered 200 OK
    sleeps,       \* 1-second sleeps taken between polls
    loadedModels, \* the keys of Translator.loaded_models
    nextWorker,   \* Translator.next_worker
    postLog,      \* the POST requests sent to the backend, in order
    returnedOk,   \* pairs for which a load_model call has returned Ok
    trTask,       \* per task: the Translator call it is in
    \* ---- main
    mainPc,       \* position inside main
    listing,      \* the names fs::read_dir(models_dir) yields
    remaining,    \* the entries the loop of load_models_manually has not visited
    models,       \* the Vec<(Language, Language)> being built, then AppState.models
    listening,    \* the TcpListener is bound
    loadFailed,   \* a model load has failed during startup
    \* ---- auth_middleware (one request at a time through the router)
    apiKeyEnv,    \* the API_KEY entry of the process environment
    authReq,      \* the request being served: route, Authorization, query
    authPc,       \* where the request is: idle, middleware, handler, responded
    authOut,      \* the response sent for the request
    handlerRan    \* the route handler has run for the request

instVars == <<wasmIn, instPc, linker, linkIdx, exportsObj, instOut>>

engVars == <<glue, newPc, newResult, readyFired, engService, engModels,
             nextHandle, ctxOwner, engCall, engCalls, loadedPairs>>

trVars == <<numWorkers, trPc, pollI, polls, okPolls, sleeps, loadedModels,
            nextWorker, postLog, returnedOk, trTask>>

mainVars == <<mainPc, listing, remaining, models, listening, loadFailed>>

authVars == <<apiKeyEnv, authReq, authPc, authOut, handlerRan>>

vars == <<instVars, engVars, trVars, mainVars, authVars>>

\* what the actions of one part leave alone
exceptInst == <<engVars, trVars, mainVars, authVars>>
exceptEng  == <<instVars, trVars, mainVars, authVars>>
exceptTr   == <<instVars, engVars, mainVars, authVars>>
bridgeVars == <<instVars, engVars, authVars>>
exceptAuth == <<instVars, engVars, trVars, mainVars>>

(***************************************************************************)
(* Bounds                                                                  *)
(***************************************************************************)
MaxImports == 2
MaxEngCalls == 3
MaxWorkers == 2
MaxPosts == 2

(***************************************************************************)
(* WebAssembly.instantiate(bytes, imports)   wasm_engine.rs l.129-193      *)
(***************************************************************************)

\* What a module may import: functions of several signatures and a memory.
ImportChoices ==
    { [module |-> "env", name |-> "f",      kind |-> "func",   params |-> 0, results |-> 0],
      [module |-> "env", name |-> "g",      kind |-> "func",   params |-> 1, results |-> 0],
      [module |-> "env", name |-> "h",      kind |-> "func",   params |-> 0, results |-> 1],
      [module |-> "env", name |-> "memory", kind |-> "memory", params |-> 0, results |-> 0] }

ExportNames == {"memory", "run"}

SeqsUpTo(S, n) == UNION { [1..k -> S] : k \in 0..n }

\* Ways bytes fail validation
Defects == {"empty", "bad magic", "truncated section", "ill-typed body"}

\* Valid binaries declare imports and exports; malformed bytes declare nothing
\* a compiler could read.  "detached" is a typed array whose buffer is gone.
WasmInputs ==
    { [bytes |-> "typed", valid |-> TRUE, defect |-> "none", imports |-> i,
       exports |-> e, startTraps |-> s] :
          i \in SeqsUpTo(ImportChoices, MaxImports), e \in SUBSET ExportNames, s \in BOOLEAN }
    \cup
    { [bytes |-> b, valid |-> FALSE, defect |-> d, imports |-> <<>>, exports |-> {},
       startTraps |-> FALSE] :
          b \in {"typed", "detached"}, d \in Defects }
    \cup
    { [bytes |-> "detached", valid |-> TRUE, defect |-> "none", imports |-> <<>>,
       exports |-> e, startTraps |-> FALSE] :
          e \in SUBSET ExportNames }

NoOut        == [kind |-> "none",     msg |-> ""]
Thrown(m)    == [kind |-> "throw",    msg |-> m]
HostPanic(m) == [kind |-> "panic",    msg |-> m]
Instance     == [kind |-> "instance", msg |-> ""]

InitInst ==
    /\ wasmIn \in WasmInputs
    /\ instPc = "call"
    /\ linker = {}
    /\ linkIdx = 1
    /\ exportsObj = {}
    /\ instOut = NoOut

\* l.133-137: bytes.as_bytes() is None for a detached array.
InstBytes ==
    /\ instPc = "call"
    /\ IF wasmIn.bytes = "typed"
         THEN /\ instPc' = "compile"
              /\ instOut' = instOut
         ELSE /\ instPc' = "done"
              /\ instOut' = Thrown("Invalid WASM bytes")
    /\ UNCHANGED <<wasmIn, linker, linkIdx, exportsObj, exceptInst>>

\* l.146-151: Module::new(..).map_err(|e| { ctx.throw("WASM Compile Error: ..");
\* Error::Exception })?  -- the outcome for bytes that do not validate.
CompileFailureUnwrap(m) == HostPanic("called Result::unwrap() on an Err value")

CompileFailure(m) == Thrown("WASM Compile Error")

InstCompile ==
    /\ instPc = "compile"
    /\ IF wasmIn.valid
         THEN /\ instPc' = "link"
              /\ instOut' = instOut
         ELSE /\ instPc' = "done"
              /\ instOut' = CompileFailure(wasmIn)
    /\ UNCHANGED <<wasmIn, linker, linkIdx, exportsObj, exceptInst>>

\* l.153-166: one turn of `for import in module.imports()`.  Only function
\* imports are defined; Linker::func_wrap refuses a name defined twice and the
\* code unwraps its result.
InstLinkImport ==
    /\ instPc = "link"
    /\ linkIdx <= Len(wasmIn.imports)
    /\ LET imp == wasmIn.imports[linkIdx]
           key == <<imp.module, imp.name>>
       IN  IF imp.kind = "func"
             THEN IF key \in linker
                    THEN /\ instPc' = "done"
                         /\ instOut' = HostPanic("called Result::unwrap() on an Err value")
                         /\ UNCHANGED <<linker, linkIdx>>
                    ELSE /\ linker' = linker \cup {key}
                         /\ linkIdx' = linkIdx + 1
                         /\ UNCHANGED <<instPc, instOut>>
             ELSE /\ linkIdx' = linkIdx + 1
                  /\ UNCHANGED <<instPc, instOut, linker>>
    /\ UNCHANGED <<wasmIn, exportsObj, exceptInst>>

\* The stub bound at l.160 is `|| {}`: no parameters, no results.
StubMatches(imp) == imp.params = 0 /\ imp.results = 0

\* Linker::instantiate: every import must be defined with the declared type,
\* and the start function must not trap.
LinkerInstantiateOk(m, defined) ==
    /\ \A i \in 1..Len(m.imports) :
          /\ <<m.imports[i].module, m.imports[i].name>> \in defined
          /\ m.imports[i].kind = "func"
          /\ StubMatches(m.imports[i])
    /\ ~m.startTraps

\* l.169-175
InstInstantiate ==
    /\ instPc = "link"
    /\ linkIdx > Len(wasmIn.imports)
    /\ IF LinkerInstantiateOk(wasmIn, linker)
         THEN /\ instPc' = "exports"
              /\ instOut' = instOut
         ELSE /\ instPc' = "done"
              /\ instOut' = Thrown("Instantiation failed")
    /\ UNCHANGED <<wasmIn, linker, linkIdx, exportsObj, exceptInst>>

\* l.178-192: every export becomes the placeholder entry `name: 0`.
InstExports ==
    /\ instPc = "exports"
    /\ exportsObj' = { n \in ExportNames : n \in wasmIn.exports }
    /\ instOut' = Instance
    /\ instPc' = "done"
    /\ UNCHANGED <<wasmIn, linker, linkIdx, exceptInst>>

NextInst ==
    \/ InstBytes
    \/ InstCompile
    \/ InstLinkImport
    \/ InstInstantiate
    \/ InstExports

ParkInst ==
    /\ wasmIn = [bytes |-> "typed", valid |-> FALSE, defect |-> "empty",
                 imports |-> <<>>, exports |-> {}, startTraps |-> FALSE]
    /\ instPc = "done"
    /\ linker = {}
    /\ linkIdx = 1
    /\ exportsObj = {}
    /\ instOut = NoOut

(***************************************************************************)
(* WasmEngine::new   wasm_engine.rs l.91-254                               *)
(***************************************************************************)

\* The glue script and the files are inputs of new.  hostIo: runtime and
\* context creation and the two file reads of l.92-97.  evalThrows: evaluating
\* the glue raises.  definesLoad: it defines the global loadBergamot.
\* loadThrows: calling loadBergamot(Module) raises.  firesReady: loadBergamot
\* calls Module.onRuntimeInitialized.  serviceThrows: `new
\* Module.BlockingService` raises.
GlueScripts ==
    [hostIo : BOOLEAN, evalThrows : BOOLEAN, definesLoad : BOOLEAN,
     loadThrows : BOOLEAN, firesReady : BOOLEAN, serviceThrows : BOOLEAN]

Callers == {1, 2}

\* Language codes are arbitrary strings to the engine; these two are enough for
\* two different pairs to share a key.
Codes == {"en", "en-en"}

Roles == {"model", "lex", "srcvocab", "trgvocab"}

EmptyMap == [k \in {} |-> 0]

IdleCall ==
    [op |-> "idle", pc |-> "idle", from |-> "", to |-> "", recognized |-> {},
     scriptCalled |-> FALSE, aligned |-> {},
     result |-> [kind |-> "none", listed |-> {}, key |-> "", text |-> ""]]

InitEng ==
    /\ glue \in GlueScripts
    /\ newPc = "host"
    /\ newResult = "none"
    /\ readyFired = FALSE
    /\ engService = FALSE
    /\ engModels = EmptyMap
    /\ nextHandle = 1
    /\ ctxOwner = 0
    /\ engCall = [c \in Callers |-> IdleCall]
    /\ engCalls = 0
    /\ loadedPairs = {}

ParkEng ==
    /\ glue = [hostIo |-> FALSE, evalThrows |-> FALSE, definesLoad |-> FALSE,
               loadThrows |-> FALSE, firesReady |-> FALSE, serviceThrows |-> FALSE]
    /\ newPc = "done"
    /\ newResult = "none"
    /\ readyFired = FALSE
    /\ engService = FALSE
    /\ engModels = EmptyMap
    /\ nextHandle = 1
    /\ ctxOwner = 0
    /\ engCall = [c \in Callers |-> IdleCall]
    /\ engCalls = 0
    /\ loadedPairs = {}

\* a failing step whose error is dropped
NewFailsSwallowed(err) ==
    /\ newPc' = "done"
    /\ newResult' = "Ok"

\* `?` inside and after context.with (l.92-97, l.231-247): the error of the
\* failing step is what new returns
NewFails(err) ==
    /\ newPc' = "done"
    /\ newResult' = err

\* l.92-97: AsyncRuntime::new, AsyncContext::full, fs::read, fs::read_to_string
NewHost ==
    /\ newPc = "host"
    /\ IF glue.hostIo
         THEN newPc' = "glue" /\ newResult' = newResult
         ELSE NewFails("Err:host")
    /\ UNCHANGED <<glue, readyFired, engService, engModels, nextHandle, ctxOwner,
                   engCall, engCalls, loadedPairs, exceptEng>>

\* l.102-232: the polyfills are installed and the glue script is evaluated
NewEvalGlue ==
    /\ newPc = "glue"
    /\ IF glue.evalThrows
         THEN NewFails("Err:script")
         ELSE newPc' = "loadBergamot" /\ newResult' = newResult
    /\ UNCHANGED <<glue, readyFired, engService, engModels, nextHandle, ctxOwner,
                   engCall, engCalls, loadedPairs, exceptEng>>

\* l.235-237: global.get("loadBergamot") and load_bergamot.call((Module,))
NewLoadBergamot ==
    /\ newPc = "loadBergamot"
    /\ IF ~glue.definesLoad \/ glue.loadThrows
         THEN /\ NewFails("Err:script")
              /\ readyFired' = readyFired
         ELSE /\ newPc' = "adapter"
              /\ newResult' = newResult
              /\ readyFired' = glue.firesReady
    /\ UNCHANGED <<glue, engService, engModels, nextHandle, ctxOwner,
                   engCall, engCalls, loadedPairs, exceptEng>>

\* l.240: ctx.eval(ADAPTER_JS) defines globalThis.engine with models = {} and
\* service = null (l.11-13)
NewAdapter ==
    /\ newPc = "adapter"
    /\ newPc' = "initService"
    /\ engModels' = EmptyMap
    /\ engService' = FALSE
    /\ UNCHANGED <<glue, newResult, readyFired, nextHandle, ctxOwner,
                   engCall, engCalls, loadedPairs, exceptEng>>

\* l.243-253 and initService of l.15-18: no wait for the ready callback and
\* no deadline stands between this step and Ok(Self { .. }).
NewInitService ==
    /\ newPc = "initService"
    /\ IF glue.serviceThrows
         THEN /\ NewFails("Err:script")
              /\ engService' = engService
         ELSE /\ newPc' = "done"
              /\ newResult' = "Ok"
              /\ engService' = TRUE
    /\ UNCHANGED <<glue, readyFired, engModels, nextHandle, ctxOwner,
                   engCall, engCalls, loadedPairs, exceptEng>>

(***************************************************************************)
(* WasmEngine::load_model   wasm_engine.rs l.256-299                       *)
(***************************************************************************)

\* File names are sequences of the pieces the classification looks at.
StartsWith(name, piece) == Len(name) >= 1 /\ name[1] = piece
EndsWith(name, piece)   == Len(name) >= 1 /\ name[Len(name)] = piece
Contains(name, piece)   == \E i \in 1..Len(name) : name[i] = piece

\* l.265-275: the key a file is inserted under, "none" when it is skipped
RoleOf(name) ==
    IF StartsWith(name, "model") /\ EndsWith(name, ".bin")
      THEN IF Contains(name, "s2t") THEN "lex" ELSE "model"
      ELSE IF StartsWith(name, "srcvocab") THEN "srcvocab"
      ELSE IF StartsWith(name, "trgvocab") THEN "trgvocab"
      ELSE "none"

\* What a model directory may hold; fs::read fails on a subdirectory.
DirEntries ==
    { [name |-> <<"model", ".bin">>,        isDir |-> FALSE],
      [name |-> <<"model", "s2t", ".bin">>, isDir |-> FALSE],
      [name |-> <<"lex", "s2t", ".bin">>,   isDir |-> FALSE],
      [name |-> <<"srcvocab", ".spm">>,     isDir |-> FALSE],
      [name |-> <<"trgvocab", ".spm">>,     isDir |-> FALSE],
      [name |-> <<"backup">>,               isDir |-> TRUE] }

ModelDirs ==
    [exists : {TRUE}, entries : SUBSET DirEntries]
    \cup {[exists |-> FALSE, entries |-> {}]}

\* The keys `files` would hold after the loop of l.259-276 visits every entry
Recognized(dir) == { RoleOf(e.name) : e \in dir.entries } \ {"none"}

Res(kind, listed, key, text) ==
    [kind |-> kind, listed |-> listed, key |-> key, text |-> text]

\* l.278 with an off-by-one threshold
ScanDirOffByOne(dir) ==
    IF ~dir.exists \/ \E e \in dir.entries : e.isDir
      THEN Res("IoError", {}, "", "")
      ELSE IF Cardinality(Recognized(dir)) < 3
             THEN Res("MissingFiles", Recognized(dir), "", "")
             ELSE Res("go", Recognized(dir), "", "")

\* l.258-280: the host half of load_model.  "go": the script half runs.
\* The bail! of l.279 prints files.keys(): the roles that were found.
ScanDir(dir) ==
    IF ~dir.exists \/ \E e \in dir.entries : e.isDir
      THEN Res("IoError", {}, "", "")
      ELSE IF Cardinality(Recognized(dir)) < 4
             THEN Res("MissingFiles", Recognized(dir), "", "")
             ELSE Res("go", Recognized(dir), "", "")

EngineUsable == newPc = "done" /\ newResult = "Ok"

\* l.256-284
EngLoadCall(c, from, to, dir) ==
    /\ EngineUsable
    /\ engCall[c].pc = "idle"
    /\ \A d \in Callers : engCall[d].pc # "done"
    /\ engCalls < MaxEngCalls
    /\ engCalls' = engCalls + 1
    /\ LET scan == ScanDir(dir)
       IN  engCall' = [engCall EXCEPT ![c] =
               [op |-> "load", from |-> from, to |-> to,
                recognized |-> Recognized(dir),
                scriptCalled |-> FALSE, aligned |-> {},
                pc |-> IF scan.kind = "go" THEN "wait" ELSE "done",
                result |-> IF scan.kind = "go" THEN IdleCall.result ELSE scan]]
    /\ UNCHANGED <<glue, newPc, newResult, readyFired, engService, engModels,
                   nextHandle, ctxOwner, loadedPairs, exceptEng>>

\* l.301-305
EngTranslateCall(c, from, to) ==
    /\ EngineUsable
    /\ engCall[c].pc = "idle"
    /\ \A d \in Callers : engCall[d].pc # "done"
    /\ engCalls < MaxEngCalls
    /\ engCalls' = engCalls + 1
    /\ engCall' = [engCall EXCEPT ![c] =
           [IdleCall EXCEPT !.op = "translate", !.from = from, !.to = to,
                            !.pc = "wait"]]
    /\ UNCHANGED <<glue, newPc, newResult, readyFired, engService, engModels,
                   nextHandle, ctxOwner, loadedPairs, exceptEng>>

\* The caller takes the value its call returned.  (A new call starts only once
\* the returned values have been taken, which leaves every order of the steps
\* that touch the engine possible.)
EngReturn(c) ==
    /\ engCall[c].pc = "done"
    /\ engCall' = [engCall EXCEPT ![c] = IdleCall]
    /\ UNCHANGED <<glue, newPc, newResult, readyFired, engService, engModels,
                   nextHandle, ctxOwner, engCalls, loadedPairs, exceptEng>>

\* self.context.with(..) with no lock taken
CtxFreeAlways(owner) == TRUE

\* l.285, l.306: AsyncContext::with takes the lock of the context's runtime
\* before it runs the closure; the lock is free when nobody holds it
CtxFree(owner) == owner = 0

\* self.context.with(..): the closure runs once the context's lock is taken
EngCtxEnter(c) ==
    /\ engCall[c].pc = "wait"
    /\ CtxFree(ctxOwner)
    /\ ctxOwner' = c
    /\ engCall' = [engCall EXCEPT ![c].pc = "in"]
    /\ UNCHANGED <<glue, newPc, newResult, readyFired, engService, engModels,
                   nextHandle, engCalls, loadedPairs, exceptEng>>

\* l.52, l.58
ModelKey(from, to) == from \o "-" \o to

\* l.31
Alignments == [model |-> 256, lex |-> 64, srcvocab |-> 64, trgvocab |-> 64]

\* l.35 with every buffer at the default alignment
AlignmentOfDefault(key) == 64

\* l.35: alignments[key] || 64
AlignmentOf(key) == IF key \in DOMAIN Alignments THEN Alignments[key] ELSE 64

\* l.20-26, l.34-36: the new Module.AlignedMemory(len, alignment) requests made
\* for the keys of `files` the loop has reached
AlignedFor(keys) == { [role |-> k, alignment |-> AlignmentOf(k)] : k \in keys }

\* l.34, l.289-292: the keys of `files` in the order the loop visits them (the
\* order the host inserted them in; one order stands for the others)
FileKeys == <<"model", "lex", "srcvocab", "trgvocab">>

\* l.285-296 and engine.loadModel of l.28-55.  The Module.* constructors are
\* the glue's: one may raise (ok = FALSE) once the buffers of the first
\* `reached` files have been built, and then l.53 is not reached.
EngRunLoad(c, ok, reached) ==
    /\ engCall[c].pc = "in"
    /\ engCall[c].op = "load"
    /\ ctxOwner = c
    /\ ctxOwner' = 0
    /\ ok => reached = Len(FileKeys)
    /\ LET key == ModelKey(engCall[c].from, engCall[c].to)
           built == { FileKeys[i] : i \in 1..reached } \cap engCall[c].recognized
       IN  IF ok
             THEN /\ engModels' = (key :> nextHandle) @@ engModels
                  /\ nextHandle' = nextHandle + 1
                  /\ loadedPairs' = loadedPairs \cup {<<engCall[c].from, engCall[c].to>>}
                  /\ engCall' = [engCall EXCEPT ![c].pc = "done",
                                                ![c].scriptCalled = TRUE,
                                                ![c].aligned = AlignedFor(built),
                                                ![c].result = Res("Ok", {}, key, "")]
             ELSE /\ UNCHANGED <<engModels, nextHandle, loadedPairs>>
                  /\ engCall' = [engCall EXCEPT ![c].pc = "done",
                                                ![c].scriptCalled = TRUE,
                                                ![c].aligned = AlignedFor(built),
                                                ![c].result = Res("ScriptError", {}, "", "")]
    /\ UNCHANGED <<glue, newPc, newResult, readyFired, engService, engCalls, exceptEng>>

\* l.306-310 and engine.translate of l.57-76.  The lookup of l.59-60 raises
\* "Model not found for " + key; past it, service.translate is the glue's and
\* may raise or yield the translated text.
EngRunTranslate(c, raises) ==
    /\ engCall[c].pc = "in"
    /\ engCall[c].op = "translate"
    /\ ctxOwner = c
    /\ ctxOwner' = 0
    /\ LET key == ModelKey(engCall[c].from, engCall[c].to)
       IN  engCall' = [engCall EXCEPT
               ![c].pc = "done",
               ![c].scriptCalled = TRUE,
               ![c].result =
                   IF key \notin DOMAIN engModels
                     THEN Res("ModelNotFound", {}, key, "")
                     ELSE IF raises THEN Res("ScriptError", {}, "", "")
                                    ELSE Res("Ok", {}, key, "translated")]
    /\ UNCHANGED <<glue, newPc, newResult, readyFired, engService, engModels,
                   nextHandle, engCalls, loadedPairs, exceptEng>>

(***************************************************************************)
(* Translator::new   translation.rs l.20-55                                *)
(***************************************************************************)

\* l.30: for i in 0..30
MaxPolls == 30
\* l.40: if i == 29
LastPoll == 29

HealthAnswers == {"connect error", "503", "200"}

Tasks == {0, 1, 2}

\* what the backend answered to a POST: nothing yet
NoAnswer == [status |-> "none", body |-> "", text |-> ""]

IdleTask ==
    [op |-> "idle", pc |-> "idle", pair |-> <<>>, from |-> <<>>, to |-> <<>>,
     posted |-> FALSE, answer |-> NoAnswer, result |-> [kind |-> "none", text |-> ""]]

\* l.49-54: the fields of a new Translator; nothing has been sent yet
InitTrFields ==
    /\ loadedModels = {}
    /\ nextWorker = 0
    /\ postLog = <<>>
    /\ returnedOk = {}
    /\ trTask = [t \in Tasks |-> IdleTask]

\* Translator::new has been called with some num_workers
InitTrNew ==
    /\ numWorkers \in 0..MaxWorkers
    /\ trPc = "build"
    /\ pollI = 0
    /\ polls = 0
    /\ okPolls = 0
    /\ sleeps = 0
    /\ InitTrFields

\* Translator::new has returned Ok(Self { .. }): the backend answered the
\* first health poll with 200
InitTr ==
    /\ numWorkers \in 0..MaxWorkers
    /\ trPc = "ok"
    /\ pollI = 0
    /\ polls = 1
    /\ okPolls = 1
    /\ sleeps = 0
    /\ InitTrFields

ParkTr ==
    /\ numWorkers = 1
    /\ trPc = "uncalled"
    /\ pollI = 0
    /\ polls = 0
    /\ okPolls = 0
    /\ sleeps = 0
    /\ InitTrFields

\* l.23-26: reqwest::Client::builder().timeout(..).build()?
TrNewBuild(ok) ==
    /\ trPc = "build"
    /\ trPc' = IF ok THEN "poll" ELSE "err:client"
    /\ UNCHANGED <<numWorkers, pollI, polls, okPolls, sleeps, loadedModels,
                   nextWorker, postLog, returnedOk, trTask, exceptTr>>

\* l.32-36: only Ok(resp) with status 200 breaks out of the loop
PollBreaksOnAnyAnswer(answer) == answer # "connect error"

PollBreaks(answer) == answer = "200"

\* l.40 with the last index off by one
IsLastPollEarly(i) == i = LastPoll - 1

\* l.40 with a test that never holds
IsLastPollNever(i) == FALSE

IsLastPoll(i) == i = LastPoll

\* l.31-45: one GET /health and what the loop body does with its answer
TrPoll(answer) ==
    /\ trPc = "poll"
    /\ pollI < MaxPolls
    /\ polls' = polls + 1
    /\ okPolls' = IF answer = "200" THEN okPolls + 1 ELSE okPolls
    /\ trPc' = IF PollBreaks(answer) THEN "ok"
               ELSE IF IsLastPoll(pollI) THEN "err:health"
               ELSE "sleep"
    /\ UNCHANGED <<numWorkers, pollI, sleeps, loadedModels, nextWorker, postLog,
                   returnedOk, trTask, exceptTr>>

\* l.46-47, l.30: the sleep, then the next i.  The range ends the loop after
\* i = 29 (not reached: l.40 returns first).
TrSleep ==
    /\ trPc = "sleep"
    /\ sleeps' = sleeps + 1
    /\ pollI' = pollI + 1
    /\ trPc' = IF pollI + 1 < MaxPolls THEN "poll" ELSE "ok"
    /\ UNCHANGED <<numWorkers, polls, okPolls, loadedModels, nextWorker, postLog,
                   returnedOk, trTask, exceptTr>>

(***************************************************************************)
(* Translator::load_model   translation.rs l.57-91                         *)
(***************************************************************************)

\* Directory names are sequences of characters; a character takes one byte,
\* or two ("é"), and a str slice must start and end on character boundaries.
ByteWidth(ch) == IF ch = "é" THEN 2 ELSE 1

RECURSIVE ByteLen(_)
ByteLen(str) == IF str = <<>> THEN 0 ELSE ByteWidth(Head(str)) + ByteLen(Tail(str))

\* byte offset at which character i of str starts
OffsetOf(str, i) == ByteLen(SubSeq(str, 1, i - 1))

IsCharBoundary(str, k) ==
    \/ k = ByteLen(str)
    \/ \E i \in 1..Len(str) : OffsetOf(str, i) = k

\* &str[a..b] panics unless a <= b <= len and both are character boundaries
SliceOk(str, a, b) ==
    /\ a <= b
    /\ b <= ByteLen(str)
    /\ IsCharBoundary(str, a)
    /\ IsCharBoundary(str, b)

\* the characters of str that start at byte offsets a .. b - 1
Slice(str, a, b) ==
    LET F[i \in 0..Len(str)] ==
            IF i = 0 THEN <<>>
            ELSE IF OffsetOf(str, i) >= a /\ OffsetOf(str, i) < b
                   THEN Append(F[i - 1], str[i])
                   ELSE F[i - 1]
    IN  F[Len(str)]

EN == <<"e", "n">>
ZH == <<"z", "h">>
FR == <<"f", "r">>

\* language_pair arguments: two names with the same codes, one too short to
\* slice, one whose byte 2 falls inside a character
PairNames == { EN \o ZH, EN \o ZH \o <<"2">>, EN, <<"e", "é", "z">> }

\* l.58-59
LoadSlicesOk(pair) == SliceOk(pair, 0, 2) /\ SliceOk(pair, 2, 4)

\* l.64 as a lookup that never hits
CacheHitNever(pair, loaded) == FALSE

\* l.63-66: loaded.contains_key(language_pair)
CacheHit(pair, loaded) == pair \in loaded

TaskFree(t) ==
    /\ trTask[t].pc = "idle"
    /\ \A u \in Tasks : trTask[u].pc # "done"

TrRes(kind, text) == [kind |-> kind, text |-> text]

\* l.57-67: the slices (which panic on a short or badly cut name), then the
\* cache lookup under the lock
TrLoadStart(t, pair) ==
    /\ trPc = "ok"
    /\ TaskFree(t)
    /\ trTask' = [trTask EXCEPT ![t] =
          IF ~LoadSlicesOk(pair)
            THEN [IdleTask EXCEPT !.op = "load", !.pair = pair, !.pc = "panicked",
                                  !.result = TrRes("panic", "")]
            ELSE IF CacheHit(pair, loadedModels)
              THEN [IdleTask EXCEPT !.op = "load", !.pair = pair, !.pc = "done",
                                    !.from = Slice(pair, 0, 2), !.to = Slice(pair, 2, 4),
                                    !.result = TrRes("Ok", "")]
              ELSE [IdleTask EXCEPT !.op = "load", !.pair = pair, !.pc = "send",
                                    !.from = Slice(pair, 0, 2), !.to = Slice(pair, 2, 4)]]
    /\ returnedOk' = IF LoadSlicesOk(pair) /\ CacheHit(pair, loadedModels)
                       THEN returnedOk \cup {pair} ELSE returnedOk
    /\ UNCHANGED <<numWorkers, trPc, pollI, polls, okPolls, sleeps, loadedModels,
                   nextWorker, postLog>>

\* a call of load_model on an existing Translator
TrLoadCall(t, pair) ==
    /\ TrLoadStart(t, pair)
    /\ UNCHANGED exceptTr

Post(kind, pair, from, to, worker) ==
    [kind |-> kind, pair |-> pair, from |-> from, to |-> to, worker |-> worker]

\* l.69-78: POST /load-model {from, to, modelDir}
TrLoadSend(t) ==
    /\ trTask[t].op = "load"
    /\ trTask[t].pc = "send"
    /\ Len(postLog) < MaxPosts
    /\ postLog' = Append(postLog,
                         Post("load-model", trTask[t].pair, trTask[t].from, trTask[t].to, 0))
    /\ trTask' = [trTask EXCEPT ![t].pc = "await", ![t].posted = TRUE]
    /\ UNCHANGED <<numWorkers, trPc, pollI, polls, okPolls, sleeps, loadedModels,
                   nextWorker, returnedOk, exceptTr>>

LoadAnswers == {"send error", "500", "200"}

\* l.79-87 with the insert made whatever the answer
LoadedAfterAny(loaded, pair, answer) == loaded \cup {pair}

\* l.79-87 with the entry of a pair dropped when its load fails
LoadedAfterEvicting(loaded, pair, answer) ==
    IF answer = "200" THEN loaded \cup {pair} ELSE loaded \ {pair}

\* l.79-87: loaded_models after the answer; both error returns leave it alone
LoadedAfter(loaded, pair, answer) ==
    IF answer = "200" THEN loaded \cup {pair} ELSE loaded

\* l.78-90: the answer; only a success status reaches the insert
TrLoadAnswer(t, answer) ==
    /\ trTask[t].op = "load"
    /\ trTask[t].pc = "await"
    /\ loadedModels' = LoadedAfter(loadedModels, trTask[t].pair, answer)
    /\ IF answer = "200"
         THEN /\ returnedOk' = returnedOk \cup {trTask[t].pair}
              /\ trTask' = [trTask EXCEPT ![t].pc = "done",
                                          ![t].answer = [NoAnswer EXCEPT !.status = answer],
                                          ![t].result = TrRes("Ok", "")]
         ELSE /\ UNCHANGED <<returnedOk>>
              /\ trTask' = [trTask EXCEPT ![t].pc = "done",
                                          ![t].answer = [NoAnswer EXCEPT !.status = answer],
                                          ![t].result = TrRes("Err", answer)]
    /\ UNCHANGED <<numWorkers, trPc, pollI, polls, okPolls, sleeps, nextWorker,
                   postLog, exceptTr>>

(***************************************************************************)
(* Translator::translate   translation.rs l.97-123                         *)
(***************************************************************************)

\* l.98: the request goes to self.worker_url, the one backend (worker 0);
\* num_workers and next_worker are not read.
WorkerFor(n, counter) == 0

TranslateCodes == {EN, ZH}

\* l.97-108: POST /translate {text, from, to}
TrTranslateSend(t, from, to) ==
    /\ Len(postLog) < MaxPosts
    /\ postLog' = Append(postLog,
                         Post("translate", <<>>, from, to, WorkerFor(numWorkers, nextWorker)))
    /\ trTask' = [trTask EXCEPT ![t] =
          [IdleTask EXCEPT !.op = "translate", !.pc = "await", !.from = from,
                           !.to = to, !.posted = TRUE]]
    /\ UNCHANGED <<numWorkers, trPc, pollI, polls, okPolls, sleeps, loadedModels,
                   nextWorker, returnedOk>>

\* a call of translate on an existing Translator
TrTranslateCall(t, from, to) ==
    /\ trPc = "ok"
    /\ TaskFree(t)
    /\ TrTranslateSend(t, from, to)
    /\ UNCHANGED exceptTr

\* What the backend may answer: no answer, a failure status, or a success
\* status with a body that is not JSON, JSON without a string "text", or JSON
\* with "text".
TranslateAnswers ==
    { [status |-> "send error", body |-> "",         text |-> ""],
      [status |-> "500",        body |-> "",         text |-> ""],
      [status |-> "200",        body |-> "not json", text |-> ""],
      [status |-> "200",        body |-> "no text",  text |-> ""],
      [status |-> "200",        body |-> "json",     text |-> "ni hao"],
      [status |-> "200",        body |-> "json",     text |-> ""] }

\* l.119-122 with a missing "text" read as the empty string
TranslateResultLenient(answer) ==
    IF answer.status = "send error" THEN TrRes("Err:send", "")
    ELSE IF answer.status # "200" THEN TrRes("Err:status", "")
    ELSE IF answer.body = "not json" THEN TrRes("Err:parse", "")
    ELSE TrRes("Ok", answer.text)

\* l.109-122
TranslateResult(answer) ==
    IF answer.status = "send error" THEN TrRes("Err:send", "")
    ELSE IF answer.status # "200" THEN TrRes("Err:status", "")
    ELSE IF answer.body = "not json" THEN TrRes("Err:parse", "")
    ELSE IF answer.body = "no text" THEN TrRes("Err:format", "")
    ELSE TrRes("Ok", answer.text)

TrTranslateAnswer(t, answer) ==
    /\ trTask[t].op = "translate"
    /\ trTask[t].pc = "await"
    /\ trTask' = [trTask EXCEPT ![t].pc = "done", ![t].answer = answer,
                                ![t].result = TranslateResult(answer)]
    /\ UNCHANGED <<numWorkers, trPc, pollI, polls, okPolls, sleeps, loadedModels,
                   nextWorker, postLog, returnedOk, exceptTr>>

\* the caller takes the value its call returned
TrReturn(t) ==
    /\ trTask[t].pc = "done"
    /\ trTask' = [trTask EXCEPT ![t] = IdleTask]
    /\ UNCHANGED <<numWorkers, trPc, pollI, polls, okPolls, sleeps, loadedModels,
                   nextWorker, postLog, returnedOk, exceptTr>>

Clients == {1, 2}

NextTrNew ==
    \/ \E ok \in BOOLEAN : TrNewBuild(ok)
    \/ \E answer \in HealthAnswers : TrPoll(answer)
    \/ TrSleep

NextTr ==
    \/ \E t \in Clients, pair \in PairNames : TrLoadCall(t, pair)
    \/ \E t \in Clients : TrLoadSend(t)
    \/ \E t \in Clients, answer \in LoadAnswers : TrLoadAnswer(t, answer)
    \/ \E t \in Clients, from \in TranslateCodes, to \in TranslateCodes :
           TrTranslateCall(t, from, to)
    \/ \E t \in Clients, answer \in TranslateAnswers : TrTranslateAnswer(t, answer)
    \/ \E t \in Clients : TrReturn(t)

(***************************************************************************)
(* main, load_models_manually   main.rs l.108-137, l.167-298               *)
(* perform_translation          translation.rs l.127-205                   *)
(***************************************************************************)

\* names the model directories may have: two well-formed pairs, one whose
\* target code is no language, one too short to slice, one whose byte 2
\* falls inside a character
DirNames == { EN \o ZH, ZH \o EN, EN \o <<"x", "x">>, EN, <<"e", "é", "z">> }

MaxDirs == 2

Listings == { l \in SUBSET DirNames : Cardinality(l) <= MaxDirs }

ParkMain ==
    /\ mainPc = "park"
    /\ listing = {}
    /\ remaining = {}
    /\ models = <<>>
    /\ listening = FALSE
    /\ loadFailed = FALSE

InitMain ==
    /\ mainPc = "spawn"
    /\ listing \in Listings
    /\ remaining = {}
    /\ models = <<>>
    /\ listening = FALSE
    /\ loadFailed = FALSE

\* l.215-238: the worker is spawned when wasm-worker.js exists; a failed
\* spawn ends main, a missing script only warns.  Then the 2 s sleep.
MainSpawn(outcome) ==
    /\ mainPc = "spawn"
    /\ mainPc' = IF outcome = "spawn failed" THEN "exited" ELSE "new"
    /\ UNCHANGED <<listing, remaining, models, listening, loadFailed, trVars, bridgeVars>>

\* l.243: Translator::new(num_workers, worker_port) is called
MainCallNew(n) ==
    /\ mainPc = "new"
    /\ trPc = "uncalled"
    /\ trPc' = "build"
    /\ numWorkers' = n
    /\ UNCHANGED <<mainPc, listing, remaining, models, listening, loadFailed,
                   pollI, polls, okPolls, sleeps, loadedModels, nextWorker, postLog,
                   returnedOk, trTask, bridgeVars>>

\* l.243: `.await.context(..)?`
MainNewDone ==
    /\ mainPc = "new"
    /\ trPc \in {"ok", "err:client", "err:health"}
    /\ mainPc' = IF trPc = "ok" THEN "readdir" ELSE "exited"
    /\ UNCHANGED <<listing, remaining, models, listening, loadFailed, trVars, bridgeVars>>

\* l.112-114: fs::read_dir(models_dir)?
MainReadDir(ok) ==
    /\ mainPc = "readdir"
    /\ IF ok
         THEN /\ mainPc' = "loop"
              /\ remaining' = listing
         ELSE /\ mainPc' = "exited"
              /\ remaining' = remaining
    /\ UNCHANGED <<listing, models, listening, loadFailed, trVars, bridgeVars>>

\* l.114-120: the next entry, in whatever order the directory yields them,
\* and the call of load_model on its name
MainLoadNext(name) ==
    /\ mainPc = "loop"
    /\ name \in remaining
    /\ remaining' = remaining \ {name}
    /\ mainPc' = "loading"
    /\ TrLoadStart(0, name)
    /\ UNCHANGED <<listing, models, listening, loadFailed, bridgeVars>>

\* l.115: `let entry = entry?;`
MainEntryError ==
    /\ mainPc = "loop"
    /\ remaining # {}
    /\ mainPc' = "exited"
    /\ UNCHANGED <<listing, remaining, models, listening, loadFailed, trVars, bridgeVars>>

\* &code.split('-').next(): the part before the first '-'
BeforeDash(code) ==
    IF \E i \in 1..Len(code) : code[i] = "-"
      THEN SubSeq(code, 1, (CHOOSE i \in 1..Len(code) :
                              code[i] = "-" /\ \A j \in 1..(i - 1) : code[j] # "-") - 1)
      ELSE code

\* l.127-134: Language::from_639_1; "none" stands for the error
ParseLanguageCode(code) ==
    LET c == BeforeDash(code)
    IN  IF c = EN THEN "Eng"
        ELSE IF c = ZH THEN "Zho"
        ELSE IF c = FR THEN "Fra"
        ELSE "none"

\* l.136-146: Mandarin (cmn) has no ISO 639-1 code of its own
GetIsoCode(lang) ==
    IF lang = "Cmn" THEN ZH
    ELSE IF lang = "Eng" THEN EN
    ELSE IF lang = "Zho" THEN ZH
    ELSE FR

\* main.rs l.120, l.246-248 with the error of load_model dropped
AfterLoadIgnoringErrors(kind) == IF kind = "panic" THEN "panicked" ELSE "parse"

\* main.rs l.120: `translator.load_model(..).await?`; a panic unwinds main
AfterLoad(kind) ==
    IF kind = "panic" THEN "panicked"
    ELSE IF kind = "Ok" THEN "parse"
    ELSE "exited"

\* l.120-134 and l.246-248: what the loop does with the value load_model
\* returned
MainLoadDone ==
    /\ mainPc = "loading"
    /\ trTask[0].pc \in {"done", "panicked"}
    /\ LET name == trTask[0].pair
           next == AfterLoad(trTask[0].result.kind)
           from == ParseLanguageCode(Slice(name, 0, 2))
           to   == ParseLanguageCode(Slice(name, 2, 4))
           parsed == ByteLen(name) >= 4 /\ from # "none" /\ to # "none"
       IN  /\ loadFailed' = (loadFailed \/ trTask[0].result.kind # "Ok" \/ ~parsed)
           /\ IF next # "parse"
                THEN /\ mainPc' = next
                     /\ models' = models
                ELSE IF ByteLen(name) < 4
                  THEN /\ mainPc' = "exited:config"
                       /\ models' = models
                ELSE IF parsed
                  THEN /\ mainPc' = "loop"
                       /\ models' = Append(models, <<from, to>>)
                  ELSE /\ mainPc' = "exited"
                       /\ models' = models
    /\ trTask' = [trTask EXCEPT ![0] = IdleTask]
    /\ UNCHANGED <<listing, remaining, listening, numWorkers, trPc, pollI, polls,
                   okPolls, sleeps, loadedModels, nextWorker, postLog, returnedOk,
                   bridgeVars>>

\* l.250-289: the state and router are built and the listener is bound
MainBind(ok) ==
    /\ mainPc = "loop"
    /\ remaining = {}
    /\ mainPc' = IF ok THEN "serving" ELSE "exited"
    /\ listening' = ok
    /\ UNCHANGED <<listing, remaining, models, loadFailed, trVars, bridgeVars>>

\* The from_lang of a request: absent, "", "auto" or a code; its to_lang.
FromLangs ==
    { [some |-> FALSE, code |-> <<>>],
      [some |-> TRUE,  code |-> <<>>],
      [some |-> TRUE,  code |-> <<"a", "u", "t", "o">>],
      [some |-> TRUE,  code |-> EN],
      [some |-> TRUE,  code |-> ZH \o <<"-", "C", "N">>],
      [some |-> TRUE,  code |-> <<"x", "x">>] }

ToLangs == { EN, ZH, FR, <<"x", "x">> }

\* what whichlang::detect_language may say of a text
Detected == {"Eng", "Cmn"}

\* l.167-182
SourceLang(from_lang, detected) ==
    IF ~from_lang.some \/ from_lang.code = <<>> \/ from_lang.code = <<"a", "u", "t", "o">>
      THEN IF Len(models) = 1 THEN models[1][1] ELSE detected
      ELSE ParseLanguageCode(from_lang.code)

\* l.194 with every pair taken as loaded
InModelsAny(pair) == TRUE

\* l.193-194: state.models.contains(&pair)
InModels(pair) == \E i \in 1..Len(models) : models[i] = pair

\* l.189 with the test dropped
SameCodeNever(from_code, to_code) == FALSE

\* l.189: from_code == to_code
SameCode(from_code, to_code) == from_code = to_code

\* l.161-205 up to the call of translate, for a request the router hands to
\* a handler: either the answer (no request is sent) or the POST /translate
MainHandle(t, from_lang, to_lang, detected) ==
    /\ mainPc = "serving"
    /\ trPc = "ok"
    /\ TaskFree(t)
    /\ LET source == SourceLang(from_lang, detected)
           target == ParseLanguageCode(to_lang)
       IN  IF source = "none" \/ target = "none"
             THEN /\ trTask' = [trTask EXCEPT ![t] =
                        [IdleTask EXCEPT !.op = "request", !.pc = "done",
                                         !.pair = <<source, target>>,
                                         !.result = TrRes("Err:language", "")]]
                  /\ UNCHANGED <<postLog>>
             ELSE IF SameCode(GetIsoCode(source), GetIsoCode(target))
               THEN /\ trTask' = [trTask EXCEPT ![t] =
                          [IdleTask EXCEPT !.op = "request", !.pc = "done",
                                           !.pair = <<source, target>>,
                                           !.from = GetIsoCode(source),
                                           !.to = GetIsoCode(target),
                                           !.result = TrRes("Ok", "the input text")]]
                    /\ UNCHANGED <<postLog>>
               ELSE IF ~InModels(<<source, target>>)
                 THEN /\ trTask' = [trTask EXCEPT ![t] =
                            [IdleTask EXCEPT !.op = "request", !.pc = "done",
                                             !.pair = <<source, target>>,
                                             !.from = GetIsoCode(source),
                                             !.to = GetIsoCode(target),
                                             !.result = TrRes("Err:not supported", "")]]
                      /\ UNCHANGED <<postLog>>
                 ELSE /\ Len(postLog) < MaxPosts
                      /\ postLog' = Append(postLog,
                             Post("translate", <<>>, GetIsoCode(source), GetIsoCode(target),
                                  WorkerFor(numWorkers, nextWorker)))
                      /\ trTask' = [trTask EXCEPT ![t] =
                            [IdleTask EXCEPT !.op = "translate", !.pc = "await",
                                             !.pair = <<source, target>>,
                                             !.from = GetIsoCode(source),
                                             !.to = GetIsoCode(target),
                                             !.posted = TRUE]]
    /\ UNCHANGED <<numWorkers, trPc, pollI, polls, okPolls, sleeps, loadedModels,
                   nextWorker, returnedOk, mainVars, bridgeVars>>

\* the response leaves the handler
MainRespond(t) ==
    /\ mainPc = "serving"
    /\ TrReturn(t)

NextMain ==
    \/ \E outcome \in {"no script", "spawned", "spawn failed"} : MainSpawn(outcome)
    \/ \E n \in 0..MaxWorkers : MainCallNew(n)
    \/ \E ok \in BOOLEAN : TrNewBuild(ok)
    \/ \E answer \in HealthAnswers : TrPoll(answer)
    \/ TrSleep
    \/ MainNewDone
    \/ \E ok \in BOOLEAN : MainReadDir(ok)
    \/ \E name \in DirNames : MainLoadNext(name)
    \/ MainEntryError
    \/ TrLoadSend(0)
    \/ \E answer \in LoadAnswers : TrLoadAnswer(0, answer)
    \/ MainLoadDone
    \/ \E ok \in BOOLEAN : MainBind(ok)
    \/ \E t \in Clients, from_lang \in FromLangs, to_lang \in ToLangs, detected \in Detected :
           MainHandle(t, from_lang, to_lang, detected)
    \/ \E t \in Clients, answer \in TranslateAnswers : TrTranslateAnswer(t, answer)
    \/ \E t \in Clients : MainRespond(t)

NextEng ==
    \/ NewHost
    \/ NewEvalGlue
    \/ NewLoadBergamot
    \/ NewAdapter
    \/ NewInitService
    \/ \E c \in Callers, from \in Codes, to \in Codes, dir \in ModelDirs :
           EngLoadCall(c, from, to, dir)
    \/ \E c \in Callers, from \in Codes, to \in Codes :
           EngTranslateCall(c, from, to)
    \/ \E c \in Callers : EngReturn(c)
    \/ \E c \in Callers : EngCtxEnter(c)
    \/ \E c \in Callers, ok \in BOOLEAN, reached \in 0..Len(FileKeys) :
           EngRunLoad(c, ok, reached)
    \/ \E c \in Callers, raises \in BOOLEAN : EngRunTranslate(c, raises)

(***************************************************************************)
(* auth_middleware (src/src/main.rs l.76-106) in front of every route of    *)
(* the router (l.259-277).  Strings are sequences of characters, so that    *)
(* strip_prefix and split are computed as the code computes them.          *)
(***************************************************************************)
None == [some |-> FALSE, val |-> <<>>]

Some(v) == [some |-> TRUE, val |-> v]

\* str::strip_prefix
StripPrefix(s, prefix) ==
    IF Len(s) >= Len(prefix) /\ SubSeq(s, 1, Len(prefix)) = prefix
    THEN Some(SubSeq(s, Len(prefix) + 1, Len(s)))
    ELSE None

\* str::split(char): the pieces of s between the occurrences of c
RECURSIVE Split(_, _)
Split(s, c) ==
    IF \E i \in 1..Len(s) : s[i] = c
    THEN LET i == CHOOSE i \in 1..Len(s) :
                      s[i] = c /\ \A j \in 1..(i - 1) : s[j] # c
         IN  <<SubSeq(s, 1, i - 1)>> \o Split(SubSeq(s, i + 1, Len(s)), c)
    ELSE <<s>>

TokenName == <<"t", "o", "k", "e", "n">>

Bearer == <<"B", "e", "a", "r", "e", "r", " ">>

\* the closure of l.90-97: the second '='-part of a pair whose first is "token"
TokenOfPair(pair) ==
    LET parts == Split(pair, "=")
    IN  IF parts[1] = TokenName
        THEN IF Len(parts) >= 2 THEN Some(parts[2]) ELSE None
        ELSE None

\* Iterator::find_map over the '&'-pieces: the first Some the closure gives
RECURSIVE FindToken(_)
FindToken(pairs) ==
    IF pairs = <<>> THEN None
    ELSE IF TokenOfPair(Head(pairs)).some THEN TokenOfPair(Head(pairs))
    ELSE FindToken(Tail(pairs))

\* l.81: std::env::var(..).unwrap_or_default() -- the value when the
\* variable is present and valid Unicode, the empty string otherwise
ExpectedKey(env) ==
    IF env.present /\ env.unicode THEN env.value ELSE <<>>

\* l.84-87: get, then to_str().ok(), then strip_prefix("Bearer ")
HeaderKey(req) ==
    IF req.header.present /\ req.header.ascii
    THEN StripPrefix(req.header.val, Bearer)
    ELSE None

\* l.89-98
QueryKey(req) ==
    IF req.query.some THEN FindToken(Split(req.query.val, "&")) ELSE None

\* l.100
Rejected(header_key, query_key, expected_key) ==
    header_key # Some(expected_key) /\ query_key # Some(expected_key)

\* the environment the server can be started in
ApiKeyEnvs ==
    { [present |-> FALSE, unicode |-> TRUE, value |-> <<>>],
      [present |-> TRUE, unicode |-> TRUE, value |-> <<>>],
      [present |-> TRUE, unicode |-> TRUE, value |-> <<"k">>],
      [present |-> TRUE, unicode |-> TRUE, value |-> <<"k", "2">>],
      [present |-> TRUE, unicode |-> FALSE, value |-> <<"k", "<FF>">>] }

\* routes of l.260-274 (three of the seven)
Routes == {"/translate", "/detect", "/health"}

AuthHeaders ==
    { [present |-> FALSE, ascii |-> TRUE, val |-> <<>>],
      [present |-> TRUE, ascii |-> TRUE, val |-> Bearer \o <<"k">>],
      [present |-> TRUE, ascii |-> TRUE, val |-> Bearer \o <<"k", "2">>],
      [present |-> TRUE, ascii |-> TRUE, val |-> Bearer],
      [present |-> TRUE, ascii |-> TRUE, val |-> <<"k">>],
      [present |-> TRUE, ascii |-> TRUE,
       val |-> <<"b", "e", "a", "r", "e", "r", " ", "k">>],
      [present |-> TRUE, ascii |-> FALSE, val |-> Bearer \o <<"k", "<FF>">>] }

Queries ==
    { None,
      Some(<<>>),
      Some(TokenName),
      Some(TokenName \o <<"=">>),
      Some(TokenName \o <<"=", "k">>),
      Some(TokenName \o <<"=", "k", "2">>),
      Some(TokenName \o <<"=", "k", "=", "2">>),
      Some(<<"a", "=", "k">>),
      Some(<<"a">> \o TokenName \o <<"=", "k">>),
      Some(<<"a", "=", "1", "&">> \o TokenName \o <<"=", "k">>),
      Some(TokenName \o <<"&">> \o TokenName \o <<"=", "k">>),
      Some(TokenName \o <<"=", "x", "&">> \o TokenName \o <<"=", "k">>) }

Requests == [route : Routes, header : AuthHeaders, query : Queries]

NoRequest == [route |-> "none", header |-> CHOOSE h \in AuthHeaders : ~h.present,
              query |-> None]

ParkAuth ==
    /\ apiKeyEnv = [present |-> FALSE, unicode |-> TRUE, value |-> <<>>]
    /\ authReq = NoRequest
    /\ authPc = "idle"
    /\ authOut = "none"
    /\ handlerRan = FALSE

InitAuth ==
    /\ apiKeyEnv \in ApiKeyEnvs
    /\ authReq = NoRequest
    /\ authPc = "idle"
    /\ authOut = "none"
    /\ handlerRan = FALSE

\* a request matches a route; its route_layer (l.275) calls auth_middleware
AuthArrive(req) ==
    /\ authPc = "idle"
    /\ authReq' = req
    /\ authPc' = "middleware"
    /\ authOut' = "none"
    /\ handlerRan' = FALSE
    /\ UNCHANGED <<apiKeyEnv, exceptAuth>>

\* l.81-105: Err(AppError::Unauthorized), or on to next.run(request)
AuthMiddleware ==
    /\ authPc = "middleware"
    /\ LET expected_key == ExpectedKey(apiKeyEnv)
       IN  IF /\ expected_key # <<>>
              /\ Rejected(HeaderKey(authReq), QueryKey(authReq), expected_key)
           THEN /\ authOut' = "Unauthorized"
                /\ authPc' = "responded"
           ELSE /\ authOut' = "none"
                /\ authPc' = "handler"
    /\ UNCHANGED <<apiKeyEnv, authReq, handlerRan, exceptAuth>>

\* l.105: next.run(request) -- the handler of the route runs and answers
AuthHandlerRun ==
    /\ authPc = "handler"
    /\ handlerRan' = TRUE
    /\ authOut' = "handled"
    /\ authPc' = "responded"
    /\ UNCHANGED <<apiKeyEnv, authReq, exceptAuth>>

\* the response is written; the connection takes the next request
AuthRespond ==
    /\ authPc = "responded"
    /\ authPc' = "idle"
    /\ authReq' = NoRequest
    /\ authOut' = "none"
    /\ handlerRan' = FALSE
    /\ UNCHANGED <<apiKeyEnv, exceptAuth>>

NextAuth ==
    \/ \E req \in Requests : AuthArrive(req)
    \/ AuthMiddleware
    \/ AuthHandlerRun
    \/ AuthRespond

InitAuthOnly == InitAuth /\ ParkInst /\ ParkEng /\ ParkTr /\ ParkMain

SpecAuth == InitAuthOnly /\ [][NextAuth]_vars

\* Each specification runs one part; the other parts stay parked.
InitInstOnly == InitInst /\ ParkEng /\ ParkTr /\ ParkMain /\ ParkAuth

InitEngineOnly == InitEng /\ ParkInst /\ ParkTr /\ ParkMain /\ ParkAuth

InitTranslatorNewOnly == InitTrNew /\ ParkInst /\ ParkEng /\ ParkMain /\ ParkAuth

InitTranslatorOnly == InitTr /\ ParkInst /\ ParkEng /\ ParkMain /\ ParkAuth

InitMainOnly == InitMain /\ ParkTr /\ ParkInst /\ ParkEng /\ ParkAuth

SpecInst == InitInstOnly /\ [][NextInst]_vars

SpecEngine == InitEngineOnly /\ [][NextEng]_vars

SpecTranslatorNew == InitTranslatorNewOnly /\ [][NextTrNew]_vars

SpecTranslator == InitTranslatorOnly /\ [][NextTr]_vars

\* Translator::new is driven to its end: the client has a 120 s timeout
\* (l.24), so every GET /health ends with an answer or an error, and every
\* sleep ends.
SpecTranslatorNewFair ==
    InitTranslatorNewOnly /\ [][NextTrNew]_vars /\ WF_vars(NextTrNew)

SpecMain == InitMainOnly /\ [][NextMain]_vars

\* WasmEngine::new has returned Ok(Self { .. }): every step of l.222-246 ran,
\* engine.models is empty and engine.service is set
InitEngReady ==
    /\ glue = [hostIo |-> TRUE, evalThrows |-> FALSE, definesLoad |-> TRUE,
               loadThrows |-> FALSE, firesReady |-> TRUE, serviceThrows |-> FALSE]
    /\ newPc = "done"
    /\ newResult = "Ok"
    /\ readyFired = TRUE
    /\ engService = TRUE
    /\ engModels = EmptyMap
    /\ nextHandle = 1
    /\ ctxOwner = 0
    /\ engCall = [c \in Callers |-> IdleCall]
    /\ engCalls = 0
    /\ loadedPairs = {}

\* The two model registries, each in a process of its own: a constructed
\* WasmEngine, or a constructed Translator.
InitRegistriesOnly ==
    \/ InitEngReady /\ ParkInst /\ ParkTr /\ ParkMain /\ ParkAuth
    \/ InitTr /\ ParkInst /\ ParkEng /\ ParkMain /\ ParkAuth

NextRegistries ==
    \/ \E c \in Callers, from \in Codes, to \in Codes, dir \in ModelDirs :
           EngLoadCall(c, from, to, dir)
    \/ \E c \in Callers, from \in Codes, to \in Codes :
           EngTranslateCall(c, from, to)
    \/ \E c \in Callers : EngReturn(c)
    \/ \E c \in Callers : EngCtxEnter(c)
    \/ \E c \in Callers, ok \in BOOLEAN, reached \in 0..Len(FileKeys) :
           EngRunLoad(c, ok, reached)
    \/ \E c \in Callers, raises \in BOOLEAN : EngRunTranslate(c, raises)
    \/ NextTr

SpecRegistries == InitRegistriesOnly /\ [][NextRegistries]_vars

(***************************************************************************)
(* Properties                                                              *)
(***************************************************************************)

\* C1: a finished WasmEngine::translate call for a (from, to) pair that no
\* successful engine.loadModel call registered has failed with the
\* model-not-found error naming the pair, and returned no text.
C1_UnregisteredPairFails ==
    \A c \in Callers :
        ( /\ engCall[c].op = "translate"
          /\ engCall[c].pc = "done"
          /\ <<engCall[c].from, engCall[c].to>> \notin loadedPairs )
        => /\ engCall[c].result.kind = "ModelNotFound"
           /\ engCall[c].result.key = ModelKey(engCall[c].from, engCall[c].to)
           /\ engCall[c].result.text = ""

\* the workers the POST /translate requests went to, in the order sent
Selected ==
    LET IsTranslate(p) == p.kind = "translate"
        sent == SelectSeq(postLog, IsTranslate)
    IN  [j \in 1..Len(sent) |-> sent[j].worker]

\* C2: on a translator created with N >= 1 workers, the j-th translate call
\* goes to worker (j - 1) mod N -- the wrapping counter modulo N -- so any N
\* consecutive calls select each worker exactly once.
C2_RoundRobin ==
    numWorkers >= 1
    => \A j \in 1..Len(Selected) : Selected[j] = (j - 1) % numWorkers

\* C3: a load_model call that starts after a call for the same pair has
\* returned Ok returns Ok at once, sends no POST /load-model and leaves
\* loaded_models unchanged.
C3_LoadIdempotent ==
    [][ \A t \in Tasks :
          ( /\ trTask[t].pc = "idle"
            /\ trTask'[t].op = "load"
            /\ trTask'[t].pair \in returnedOk )
          => /\ trTask'[t].pc = "done"
             /\ trTask'[t].result.kind = "Ok"
             /\ ~trTask'[t].posted
             /\ postLog' = postLog
             /\ loadedModels' = loadedModels ]_vars

C3_Witness ==
    \E t \in Tasks :
        /\ trTask[t].op = "load"
        /\ trTask[t].pc = "done"
        /\ trTask[t].result.kind = "Ok"
        /\ ~trTask[t].posted
        /\ Len(postLog) = 1
        /\ postLog[1].pair = trTask[t].pair

C5_ErrIffAllPollsFailed ==
    /\ trPc = "ok" => okPolls >= 1
    /\ trPc \in {"err:client", "err:health"} <=> (polls = MaxPolls /\ okPolls = 0)

\* C5 (amended): new returns Ok only after a poll answered 200, which is the
\* last poll it sends; it returns Err exactly when the HTTP client could not
\* be built (before any poll) or all 30 polls failed to connect or answered
\* another status.
C5_HealthGate ==
    /\ trPc = "ok" => (okPolls = 1 /\ polls <= MaxPolls)
    /\ okPolls >= 1 => trPc = "ok"
    /\ trPc = "err:client" => polls = 0
    /\ trPc = "err:health" <=> (polls = MaxPolls /\ okPolls = 0)
    /\ trPc \in {"build", "poll", "sleep", "ok", "err:client", "err:health"}

C5_Witness ==
    /\ trPc = "ok"
    /\ polls = MaxPolls
    /\ okPolls = 1

HasTranslatePost == \E i \in 1..Len(postLog) : postLog[i].kind = "translate"

\* C6: once a model load has failed during startup (load_model returned Err
\* or panicked, or the pair name did not parse) the process has ended without
\* binding the listener; the listener is bound, and requests are forwarded,
\* only with every listed model loaded.
C6_LoadFailureEndsStartup ==
    /\ loadFailed => (mainPc \in {"exited", "panicked"} /\ ~listening)
    /\ listening => /\ listing \subseteq loadedModels
                    /\ Len(models) = Cardinality(listing)
    /\ HasTranslatePost => listening

C6_Witness ==
    /\ loadFailed
    /\ mainPc = "exited"
    /\ Len(models) = 1
    /\ Cardinality(listing) = 2

\* C7: a POST is sent only after a health poll answered 200, and a POST
\* /translate only after load_model returned Ok for every model directory.
C7_StartupOrder ==
    /\ Len(postLog) > 0 => okPolls >= 1
    /\ HasTranslatePost => listing \subseteq returnedOk

C7_Witness ==
    /\ Len(postLog) = 2
    /\ postLog[1].kind = "load-model"
    /\ postLog[2].kind = "translate"
    /\ polls > 1

\* C8: when WasmEngine::new has evaluated the glue and called loadBergamot
\* and the ready callback has not fired, new ends with InitializationTimeout.
C8_TimeoutWhenNeverReady ==
    ( /\ newPc = "done"
      /\ glue.hostIo /\ ~glue.evalThrows /\ glue.definesLoad /\ ~glue.loadThrows
      /\ ~readyFired )
    => newResult = "Err:InitializationTimeout"

\* C9: instantiate on valid bytes (whose start function does not trap) returns
\* an instance whose exports object has one entry per declared export.
C9_ValidBytesInstantiate ==
    ( /\ instPc = "done"
      /\ wasmIn.bytes = "typed"
      /\ wasmIn.valid
      /\ ~wasmIn.startTraps )
    => /\ instOut = Instance
       /\ exportsObj = wasmIn.exports

\* C10: instantiate on malformed bytes never panics and never yields an
\* instance; it ends by throwing the compile-error exception.
C10_MalformedBytesThrow ==
    ( wasmIn.bytes = "typed" /\ ~wasmIn.valid )
    => /\ instOut.kind \notin {"panic", "instance"}
       /\ exportsObj = {}
       /\ instPc \in {"call", "compile", "done"}
       /\ instPc = "done" => instOut = Thrown("WASM Compile Error")

C10_Witness ==
    /\ instPc = "done"
    /\ wasmIn.bytes = "typed"
    /\ ~wasmIn.valid
    /\ wasmIn.defect = "truncated section"
    /\ instOut.kind = "throw"

\* C11: on a translator created with num_workers = 0 no POST /translate is
\* ever sent, and every translate call has ended with the NoWorkers error.
C11_NoWorkersWhenEmpty ==
    numWorkers = 0
    => /\ ~HasTranslatePost
       /\ \A t \in Tasks :
              trTask[t].op = "translate"
              => /\ trTask[t].pc = "done"
                 /\ trTask[t].result.kind = "NoWorkers"
                 /\ ~trTask[t].posted

\* C12: whatever the interleaving of the load_model calls, at most one
\* POST /load-model is sent for a pair.
C12_AtMostOneLoadPost ==
    \A i, j \in 1..Len(postLog) :
        ( /\ postLog[i].kind = "load-model"
          /\ postLog[j].kind = "load-model"
          /\ postLog[i].pair = postLog[j].pair )
        => i = j

\* C13: at most one call is inside the engine's script context at a time, it
\* is the one holding the context, and engine.models changes only inside the
\* script section of a load_model call -- never while a translate call is in
\* its section.
C13_ContextExclusive ==
    /\ [](/\ \A c, d \in Callers :
                (engCall[c].pc = "in" /\ engCall[d].pc = "in") => c = d
          /\ \A c \in Callers : engCall[c].pc = "in" <=> ctxOwner = c)
    /\ [][ engModels' # engModels
           => \E c \in Callers :
                  /\ engCall[c].pc = "in"
                  /\ engCall[c].op = "load"
                  /\ ctxOwner = c
                  /\ \A d \in Callers \ {c} : engCall[d].pc # "in" ]_vars

C13_Witness ==
    \E c, d \in Callers :
        /\ engCall[c].op = "translate"
        /\ engCall[c].pc = "in"
        /\ engCall[d].op = "load"
        /\ engCall[d].pc = "wait"
        /\ DOMAIN engModels # {}

C15_EngineLoadIdempotent ==
    [][ \A c \in Callers :
          /\ ( /\ engCall[c].pc = "idle"
               /\ engCall'[c].op = "load"
               /\ <<engCall'[c].from, engCall'[c].to>> \in loadedPairs )
             => /\ engCall'[c].pc = "done"
                /\ engCall'[c].result.kind = "Ok"
          /\ ( /\ engCall[c].op = "load"
               /\ engCall[c].pc = "in"
               /\ engCall'[c].pc = "done"
               /\ <<engCall[c].from, engCall[c].to>> \in loadedPairs )
             => /\ engCall'[c].result.kind = "Ok"
                /\ nextHandle' = nextHandle
                /\ engModels' = engModels ]_vars

\* C17: every aligned buffer a load_model call has built was requested at
\* 256 for the weights (model) and at 64 for the lexical table and the two
\* vocabularies, and a call that registered its model built all four.
C17_RoleAlignments ==
    \A c \in Callers :
        /\ \A b \in engCall[c].aligned :
              /\ b.role \in Roles
              /\ b.role = "model" => b.alignment = 256
              /\ b.role \in {"lex", "srcvocab", "trgvocab"} => b.alignment = 64
        /\ (engCall[c].op = "load" /\ engCall[c].result.kind = "Ok")
           => { b.role : b \in engCall[c].aligned } = Roles

C17_Witness ==
    \E c \in Callers :
        /\ engCall[c].op = "load"
        /\ engCall[c].pc = "done"
        /\ engCall[c].result.kind = "Ok"
        /\ [role |-> "model", alignment |-> 256] \in engCall[c].aligned
        /\ [role |-> "lex", alignment |-> 64] \in engCall[c].aligned
        /\ Cardinality(engCall[c].aligned) = 4

\* C16: once the import loop of instantiate has visited every import of a
\* valid module, each import -- of whatever kind -- is defined in the linker
\* by a stub of the import's declared signature, and the call does not end
\* with a failed instantiation or a panic over an import.
C16_StubsMatchImports ==
    ( /\ wasmIn.bytes = "typed"
      /\ wasmIn.valid
      /\ ~wasmIn.startTraps
      /\ \/ instPc \in {"exports", "done"}
         \/ instPc = "link" /\ linkIdx > Len(wasmIn.imports) )
    => /\ \A i \in 1..Len(wasmIn.imports) :
              /\ <<wasmIn.imports[i].module, wasmIn.imports[i].name>> \in linker
              /\ StubMatches(wasmIn.imports[i])
       /\ instOut.kind \notin {"throw", "panic"}

\* C18: no step removes a key from engine.models or from loaded_models: a
\* registered pair stays registered after every load and translate call,
\* successful or failed.
C18_NeverUnregistered ==
    [][ /\ DOMAIN engModels \subseteq DOMAIN engModels'
        /\ loadedPairs \subseteq loadedPairs'
        /\ loadedModels \subseteq loadedModels' ]_vars

C18_Witness ==
    \E c \in Callers :
        /\ engCall[c].op = "load"
        /\ engCall[c].pc = "done"
        /\ engCall[c].result.kind = "ScriptError"
        /\ ModelKey(engCall[c].from, engCall[c].to) \in DOMAIN engModels
        /\ <<engCall[c].from, engCall[c].to>> \in loadedPairs

\* C19: Translator::new ends, with Ok or Err; it sends at most 30 polls, it
\* sleeps once between two consecutive polls and not after the last one, and
\* it has returned once the 30th poll is answered.
C19_NewTerminates ==
    /\ [](/\ polls <= MaxPolls
          /\ trPc \in {"build", "err:client"} => (polls = 0 /\ sleeps = 0)
          /\ trPc = "poll" => (polls = pollI /\ sleeps = polls)
          /\ trPc = "sleep" => (polls < MaxPolls /\ sleeps = polls - 1)
          /\ trPc \in {"ok", "err:health"} => (polls >= 1 /\ sleeps = polls - 1)
          /\ polls = MaxPolls => trPc \in {"ok", "err:health"})
    /\ <>(trPc \in {"ok", "err:client", "err:health"})

C19_Witness ==
    /\ trPc = "err:health"
    /\ polls = MaxPolls
    /\ sleeps = MaxPolls - 1

\* C20: when the loop of load_models_manually is done with an entry whose
\* name has fewer than 4 characters, load_model has not panicked and the
\* function has returned the ConfigError, whatever the backend answered.
C20_ShortNameConfigError ==
    [][ ( /\ mainPc = "loading"
          /\ mainPc' # "loading"
          /\ Len(trTask[0].pair) < 4 )
        => /\ trTask[0].result.kind # "panic"
           /\ mainPc' = "exited:config" ]_vars

\* C21 (as stated): a request whose resolved (source, target) pair is not in
\* state.models has ended with an error, carries no text and was not
\* forwarded to the backend.
C21_UnloadedPairFails ==
    \A t \in Clients :
        ( /\ trTask[t].op \in {"request", "translate"}
          /\ Len(trTask[t].pair) = 2
          /\ trTask[t].pair[1] # "none" /\ trTask[t].pair[2] # "none"
          /\ ~\E i \in 1..Len(models) : models[i] = trTask[t].pair )
        => /\ trTask[t].pc = "done"
           /\ trTask[t].result.kind \in {"Err:language", "Err:not supported"}
           /\ trTask[t].result.text = ""
           /\ ~trTask[t].posted

\* C21 (amended): a request whose resolved source and target codes differ and
\* whose (source, target) pair is not in state.models has ended with the
\* not-supported TranslationError, carries no text and was not forwarded; and
\* every POST /translate sent carries the codes of a pair of state.models.
C21_UnloadedPairNotForwarded ==
    /\ \A t \in Clients :
          ( /\ trTask[t].op \in {"request", "translate"}
            /\ Len(trTask[t].pair) = 2
            /\ trTask[t].pair[1] # "none" /\ trTask[t].pair[2] # "none"
            /\ GetIsoCode(trTask[t].pair[1]) # GetIsoCode(trTask[t].pair[2])
            /\ ~\E i \in 1..Len(models) : models[i] = trTask[t].pair )
          => /\ trTask[t].pc = "done"
             /\ trTask[t].result = TrRes("Err:not supported", "")
             /\ ~trTask[t].posted
    /\ \A k \in 1..Len(postLog) :
          postLog[k].kind = "translate"
          => \E i \in 1..Len(models) :
                 /\ postLog[k].from = GetIsoCode(models[i][1])
                 /\ postLog[k].to = GetIsoCode(models[i][2])

C21_Witness ==
    \E t \in Clients :
        /\ trTask[t].pc = "done"
        /\ trTask[t].result.kind = "Err:not supported"
        /\ trTask[t].pair = <<"Cmn", "Eng">>
        /\ \E i \in 1..Len(models) : models[i] = <<"Zho", "Eng">>

\* C22: every key of loaded_models is the pair of a POST /load-model that was
\* sent; a pair is added only in the step in which a load_model call that
\* posted for it receives a success status, and a call that receives a send
\* error or another status returns Err and leaves loaded_models unchanged.
C22_MarkerAfterSuccess ==
    /\ [](\A p \in loadedModels :
              \E k \in 1..Len(postLog) :
                  postLog[k].kind = "load-model" /\ postLog[k].pair = p)
    /\ [][ /\ \A p \in loadedModels' \ loadedModels :
                 \E t \in Tasks :
                     /\ trTask[t].op = "load"
                     /\ trTask[t].pc = "await"
                     /\ trTask[t].posted
                     /\ trTask[t].pair = p
                     /\ trTask'[t].answer.status = "200"
           /\ \A t \in Tasks :
                 ( /\ trTask[t].op = "load"
                   /\ trTask[t].pc = "await"
                   /\ trTask'[t].pc = "done"
                   /\ trTask'[t].answer.status # "200" )
                 => /\ trTask'[t].result.kind = "Err"
                    /\ loadedModels' = loadedModels ]_vars

C22_Witness ==
    \E t \in Tasks :
        /\ trTask[t].op = "load"
        /\ trTask[t].pc = "done"
        /\ trTask[t].posted
        /\ trTask[t].answer.status = "500"
        /\ trTask[t].result.kind = "Err"
        /\ trTask[t].pair \notin loadedModels
        /\ loadedModels # {}

\* C23: a finished translate call holds Ok exactly when the backend answered
\* with a success status and a JSON body with a string "text", and then its
\* text is that string; a send failure, another status, an unparsable body
\* and a missing "text" each give their own Err and no text.
C23_TranslateTyped ==
    \A t \in Tasks :
        (trTask[t].op = "translate" /\ trTask[t].pc = "done")
        => LET a == trTask[t].answer
               r == trTask[t].result
           IN  /\ r.kind = "Ok" <=> (a.status = "200" /\ a.body = "json")
               /\ r.kind = "Ok" => r.text = a.text
               /\ r.kind # "Ok" => r.text = ""
               /\ a.status = "send error" => r.kind = "Err:send"
               /\ a.status = "500" => r.kind = "Err:status"
               /\ (a.status = "200" /\ a.body = "not json") => r.kind = "Err:parse"
               /\ (a.status = "200" /\ a.body = "no text") => r.kind = "Err:format"

C23_Witness ==
    \E t \in Tasks :
        /\ trTask[t].op = "translate"
        /\ trTask[t].pc = "done"
        /\ trTask[t].answer.status = "200"
        /\ trTask[t].answer.text = "ni hao"
        /\ trTask[t].result = TrRes("Ok", "ni hao")

\* C24: a request whose resolved source and target codes are equal ends in
\* the step that handles it, with the input text and those codes, and that
\* step sends nothing to the backend -- whatever state.models holds.
C24_SameLanguagePassThrough ==
    [][ \A t \in Clients :
          ( /\ trTask[t].pc = "idle"
            /\ trTask'[t].op \in {"request", "translate"}
            /\ Len(trTask'[t].pair) = 2
            /\ trTask'[t].pair[1] # "none" /\ trTask'[t].pair[2] # "none"
            /\ GetIsoCode(trTask'[t].pair[1]) = GetIsoCode(trTask'[t].pair[2]) )
          => /\ trTask'[t].pc = "done"
             /\ trTask'[t].result = TrRes("Ok", "the input text")
             /\ trTask'[t].from = GetIsoCode(trTask'[t].pair[1])
             /\ trTask'[t].to = trTask'[t].from
             /\ ~trTask'[t].posted
             /\ postLog' = postLog ]_vars

C24_Witness ==
    \E t \in Clients :
        /\ trTask[t].pc = "done"
        /\ trTask[t].pair = <<"Cmn", "Zho">>
        /\ trTask[t].result = TrRes("Ok", "the input text")
        /\ trTask[t].from = ZH
        /\ models = <<>>
        /\ postLog = <<>>

\* C25: with API_KEY set to a non-empty value, the handler of a request is
\* reached only if the Authorization header is "Bearer " followed by the key
\* or the query string holds token=<key> as one of its '&'-separated
\* pairs, and every other request is answered Unauthorized with no handler
\* run; with API_KEY unset or empty every request is answered by its handler.
C25_AuthGate ==
    LET key == apiKeyEnv.value
        keySet == apiKeyEnv.present /\ key # <<>>
        q == authReq.query.val
        tk == TokenName \o <<"=">> \o key
        headerCarries ==
            authReq.header.present /\ authReq.header.val = Bearer \o key
        queryCarries ==
            /\ authReq.query.some
            /\ \E i \in 1..Len(q) :
                   /\ i = 1 \/ q[i - 1] = "&"
                   /\ i + Len(tk) - 1 <= Len(q)
                   /\ SubSeq(q, i, i + Len(tk) - 1) = tk
                   /\ i + Len(tk) > Len(q) \/ q[i + Len(tk)] \in {"&", "="}
        carries == headerCarries \/ queryCarries
    IN  /\ (keySet /\ (authPc = "handler" \/ handlerRan)) => carries
        /\ (keySet /\ ~carries /\ authPc = "responded")
               => (authOut = "Unauthorized" /\ ~handlerRan)
        /\ (~keySet /\ authPc = "responded")
               => (authOut = "handled" /\ handlerRan)

====
